---- MODULE Spec2Model ----
(***************************************************************************)
(* Bento material export (src/Bento/export_materials.py): the traversal of *)
(* a material's node tree into an XML element tree, the per-node           *)
(* conversion with its kind-specific rules, the value formatting and the   *)
(* batch loop over the scene's materials.                                  *)
(*                                                                         *)
(* Numbers.  A socket default is a sequence of integers counted in units   *)
(* of 1/Scale (0.5 is 5000); a one-element sequence is a Python float, a   *)
(* longer one a bpy_prop_array.  Derived values (products, quotients) are  *)
(* exact rationals [n, d] with d > 0.  round(v, 4) is modelled on the      *)
(* exact value, half to even; the inputs drawn below stay away from the    *)
(* binary-representation ties of the float implementation.                 *)
(***************************************************************************)
EXTENDS Integers, Sequences, FiniteSets, TLC

\* round(v, 4): four decimal digits, i.e. units of 1/10000.
Scale == 10000

\* Python's None where a string is expected (dict.get on a missing key).
NoneStr == "<None>"

\* Python's None as the result of traverse / node_to_xml / export_texture.
None == [none |-> TRUE]

\* An exception leaving a function, with its Python type.
Raised(e) == [exc |-> e]

IsRaised(r) == "exc" \in DOMAIN r

\* Python truthiness of an optional string: None and "" are falsy.
Truthy(s) == s /= NoneStr /\ s /= ""

\* dict.get(key) on a table modelled as a function on its keys.
Get(map, key) == IF key \in DOMAIN map THEN map[key] ELSE NoneStr

\* parameter_map.get(node.type, {}).get(input_socket.name)
ParamName(parameter_map, kind, socket_name) ==
    IF kind \in DOMAIN parameter_map
    THEN Get(parameter_map[kind], socket_name)
    ELSE NoneStr

(***************************************************************************)
(* Value formatting: convert_values                                        *)
(***************************************************************************)

RECURSIVE GCD(_, _)
GCD(a, b) == IF b = 0 THEN a ELSE GCD(b, a % b)

Abs(x) == IF x < 0 THEN -x ELSE x

\* The rational n/d in lowest terms with a positive denominator (d /= 0).
Q(n, d) ==
    LET g == GCD(Abs(n), Abs(d))
        s == IF d < 0 THEN -1 ELSE 1
    IN  [n |-> s * (n \div g), d |-> s * (d \div g)]

AddQ(a, b) == Q(a.n * b.d + b.n * a.d, a.d * b.d)

MulQ(a, b) == Q(a.n * b.n, a.d * b.d)

DivQ(a, b) == Q(a.n * b.d, a.d * b.n)

LessQ(a, b) == a.n * b.d < b.n * a.d

\* A socket component (units of 1/Scale) as a rational.
OfUnits(x) == Q(x, Scale)

\* n/d rounded to the nearest integer, ties to the even one (n >= 0, d > 0).
RoundHalfEven(n, d) ==
    LET q == n \div d
        r == n % d
    IN  IF 2 * r < d THEN q
        ELSE IF 2 * r > d THEN q + 1
        ELSE IF q % 2 = 0 THEN q ELSE q + 1

\* round(v, 4) of a non-negative rational, in units of 1/Scale.
Round4(v) ==
    LET g == GCD(v.d, Scale)
    IN  RoundHalfEven(v.n * (Scale \div g), v.d \div g)

\* The fractional digits of k/Scale without trailing zeros, at least one.
FracDigits(f) ==
    IF f % 1000 = 0 THEN ToString(f \div 1000)
    ELSE IF f % 100 = 0
         THEN ToString(f \div 1000) \o ToString((f \div 100) % 10)
    ELSE IF f % 10 = 0
         THEN ToString(f \div 1000) \o ToString((f \div 100) % 10)
              \o ToString((f \div 10) % 10)
    ELSE ToString(f \div 1000) \o ToString((f \div 100) % 10)
         \o ToString((f \div 10) % 10) \o ToString(f % 10)

\* str(x) of the Python float k/Scale, k >= 0: "0.25", "1.0", "0.0001".
FloatStr(k) == ToString(k \div Scale) \o "." \o FracDigits(k % Scale)

\* str(value) of a value that is neither formatted as color nor as float.
NaturalStr(value) ==
    IF Len(value) = 1
    THEN FloatStr(Round4(value[1]))
    ELSE "<bpy_float[" \o ToString(Len(value)) \o "]>"

\* ",".join(str(round(v, 4)) for the first three components)
ColorStr(value) ==
    IF Len(value) = 0 THEN ""
    ELSE IF Len(value) = 1 THEN FloatStr(Round4(value[1]))
    ELSE IF Len(value) = 2
         THEN FloatStr(Round4(value[1])) \o "," \o FloatStr(Round4(value[2]))
    ELSE FloatStr(Round4(value[1])) \o "," \o FloatStr(Round4(value[2]))
         \o "," \o FloatStr(Round4(value[3]))

\* convert_values(value, param_type); value is a sequence of rationals.
convert_values(value, param_type) ==
    IF param_type = "color" THEN ColorStr(value)
    ELSE IF param_type = "float" THEN FloatStr(Round4(value[1]))
    ELSE NaturalStr(value)

\* A socket's default_value (units of 1/Scale) as a sequence of rationals.
Rationals(dv) == [i \in 1..Len(dv) |-> OfUnits(dv[i])]

(***************************************************************************)
(* The source graph as bpy exposes it, and the XML elements built from it  *)
(*                                                                         *)
(* node   = [type, inputs, image]; inputs is the ordered socket list.      *)
(* socket = [name, type, default_value, links]; links is the sequence of   *)
(*          the from_node ids of the socket's links.                       *)
(* image  = [name, has_data, save] or None; save is what img.save() will   *)
(*          do: "ok", "RuntimeError" or another exception type.            *)
(* An element is [tag, type, name, attrs, children]: attrs are the         *)
(* parameter sub-elements [tag, name, value] that node_to_xml adds,        *)
(* children the producer elements traverse appends after them.             *)
(***************************************************************************)

\* ET.Element(tag, type=node_type)
Element(tag, type) ==
    [tag |-> tag, type |-> type, name |-> NoneStr,
     attrs |-> <<>>, children |-> <<>>]

\* Variant: the sub-element is inserted in front of the existing ones.
SubElementFirst(node_tag, param_type, name, value) ==
    [node_tag EXCEPT
        !.attrs = <<[tag |-> param_type, name |-> name, value |-> value]>> \o @]

\* ET.SubElement(node_tag, param_type, name=..., value=...)
SubElement(node_tag, param_type, name, value) ==
    [node_tag EXCEPT
        !.attrs = Append(@, [tag |-> param_type, name |-> name, value |-> value])]

\* child_tag.set("name", param_name)
SetName(child_tag, param_name) == [child_tag EXCEPT !.name = param_name]

\* node_tag.append(child_tag)
AppendChild(node_tag, child_tag) ==
    [node_tag EXCEPT !.children = Append(@, child_tag)]

\* node.inputs.get(name): the first socket of that name, or None.
InputsGet(node, name) ==
    LET I == {i \in 1..Len(node.inputs) : node.inputs[i].name = name}
    IN  IF I = {} THEN None
        ELSE node.inputs[CHOOSE i \in I : \A j \in I : i <= j]

\* `sock and len(sock.links) == 0`
Unlinked(sock) == sock /= None /\ Len(sock.links) = 0

\* value[:3]
First3(value) == SubSeq(value, 1, IF Len(value) < 3 THEN Len(value) ELSE 3)

\* os.path.splitext(img.name)[0] of a name held as [stem, ext].
SplitExt0(name) == name.stem

\* str.lower() on the texture formats.
LowerCase ==
    [f \in {"PNG", "JPEG", "OPEN_EXR"} |->
        CASE f = "PNG" -> "png" [] f = "JPEG" -> "jpeg" [] OTHER -> "open_exr"]

(***************************************************************************)
(* export_texture.  The result is [path, exc]: the returned relative path  *)
(* (NoneStr for None) and the exception that leaves the call (NoneStr for  *)
(* a normal return).  The flip of img.pixels and the change of             *)
(* img.file_format are undone by the finally block on every path past the  *)
(* has_data check, so the call as a whole leaves the image as it was.      *)
(***************************************************************************)
export_texture(node, export_settings) ==
    IF ~export_settings.export_textures THEN [path |-> NoneStr, exc |-> NoneStr]
    ELSE IF node.image = None THEN [path |-> NoneStr, exc |-> NoneStr]
    ELSE IF ~node.image.has_data THEN [path |-> NoneStr, exc |-> NoneStr]
    ELSE IF node.image.save = "RuntimeError"
         THEN [path |-> NoneStr, exc |-> NoneStr]
    ELSE IF node.image.save /= "ok"
         THEN [path |-> NoneStr, exc |-> node.image.save]
    ELSE [path |-> "textures/" \o SplitExt0(node.image.name) \o "."
                   \o LowerCase[export_settings.texture_format],
          exc |-> NoneStr]

(***************************************************************************)
(* handle_special_cases, one operator per case of the match                *)
(***************************************************************************)

\* case "EMISSION": radiance = color[:3] * strength, read from the defaults.
EmissionCase(node, node_tag) ==
    LET color == InputsGet(node, "Color").default_value
        strength == InputsGet(node, "Strength").default_value
        radiance == [i \in 1..Len(First3(color)) |->
                        MulQ(OfUnits(color[i]), OfUnits(strength[1]))]
    IN  SubElement(node_tag, "color", "radiance",
                   convert_values(radiance, "color"))

\* Variant: the two fallback values are exchanged.
TintChannelSwapped(b, t) ==
    LET denominator == b - Scale
    IN  IF Abs(denominator) > 1
        THEN LET q == Q(t - Scale, denominator)
             IN  IF q.n < 0 THEN Q(0, 1)
                 ELSE IF q.n > q.d THEN Q(1, 1)
                 ELSE q
        ELSE IF t >= 9999 THEN Q(1, 1) ELSE Q(0, 1)

\* One channel of the tint remap: clamp01((T - 1)/(B - 1)), or the 0/1
\* fallback when |B - 1| is not above 0.0001.
TintChannel(b, t) ==
    LET denominator == b - Scale
    IN  IF Abs(denominator) > 1
        THEN LET q == Q(t - Scale, denominator)
             IN  IF q.n < 0 THEN Q(0, 1)
                 ELSE IF q.n > q.d THEN Q(1, 1)
                 ELSE q
        ELSE IF t >= 9999 THEN Q(0, 1) ELSE Q(1, 1)

\* tint_values of the Specular Tint / Sheen Tint blocks.
TintValues(base_color, tint) ==
    LET base_color_value ==
            IF base_color /= None THEN First3(base_color.default_value)
            ELSE <<5000, 5000, 5000>>
        tint_color == First3(tint.default_value)
    IN  [i \in 1..3 |-> TintChannel(base_color_value[i], tint_color[i])]

\* sum(tint_values) / 3.0
TintValue(base_color, tint) ==
    LET tv == TintValues(base_color, tint)
    IN  DivQ(AddQ(AddQ(tv[1], tv[2]), tv[3]), Q(3, 1))

\* `sock = node.inputs.get(name); if not sock: sock = node.inputs.get(old)`
InputsGet2(node, name, old) ==
    IF InputsGet(node, name) /= None THEN InputsGet(node, name)
    ELSE InputsGet(node, old)

\* One `if sock and len(sock.links) == 0: ET.SubElement(... "float" ...)` block.
FloatParam(node_tag, sock, name) ==
    IF Unlinked(sock)
    THEN SubElement(node_tag, "float", name,
                    convert_values(Rationals(sock.default_value), "float"))
    ELSE node_tag

\* One tint block (Specular Tint, Sheen Tint).
TintParam(node_tag, base_color, tint, name) ==
    IF Unlinked(tint)
    THEN SubElement(node_tag, "float", name,
                    convert_values(<<TintValue(base_color, tint)>>, "float"))
    ELSE node_tag

\* case "BSDF_PRINCIPLED"
PrincipledCase(node, node_tag) ==
    LET base_color == InputsGet(node, "Base Color")
        t1 == IF Unlinked(base_color)
              THEN SubElement(node_tag, "color", "baseColor",
                       convert_values(Rationals(base_color.default_value), "color"))
              ELSE node_tag
        t2 == FloatParam(t1, InputsGet2(node, "Subsurface Weight", "Subsurface"),
                         "subsurface")
        t3 == FloatParam(t2, InputsGet(node, "Metallic"), "metallic")
        t4 == FloatParam(t3, InputsGet2(node, "Specular IOR Level", "Specular"),
                         "specular")
        t5 == TintParam(t4, base_color, InputsGet(node, "Specular Tint"),
                        "specularTint")
        t6 == FloatParam(t5, InputsGet(node, "Roughness"), "roughness")
        t7 == FloatParam(t6, InputsGet2(node, "Sheen Weight", "Sheen"), "sheen")
        t8 == TintParam(t7, base_color, InputsGet(node, "Sheen Tint"), "sheenTint")
        t9 == FloatParam(t8, InputsGet2(node, "Coat Weight", "Clearcoat"),
                         "clearcoat")
        coat_roughness == InputsGet2(node, "Coat Roughness", "Clearcoat Roughness")
    IN  IF Unlinked(coat_roughness)
        THEN SubElement(t9, "float", "clearcoatGloss",
                 convert_values(<<OfUnits(Scale - coat_roughness.default_value[1])>>,
                                "float"))
        ELSE t9

\* case "BSDF_DIFFUSE"
DiffuseCase(node, node_tag) ==
    LET color == InputsGet(node, "Color")
    IN  IF Unlinked(color)
        THEN SubElement(node_tag, "color", "albedo",
                 convert_values(Rationals(color.default_value), "color"))
        ELSE node_tag

\* alpha = roughness ** 2
GlossyAlpha(node) ==
    LET roughness == InputsGet(node, "Roughness").default_value
    IN  MulQ(OfUnits(roughness[1]), OfUnits(roughness[1]))

\* Variant: the threshold is 0.0001.
BelowWrongThreshold(alpha) == LessQ(alpha, Q(1, 10000))

\* `alpha < 0.00001`
BelowMirrorThreshold(alpha) == LessQ(alpha, Q(1, 100000))

\* case "BSDF_GLOSSY"
GlossyCase(node, node_tag) ==
    LET alpha == GlossyAlpha(node)
        color == InputsGet(node, "Color")
        t1 == IF Unlinked(color)
              THEN SubElement(node_tag, "color", "kd",
                       convert_values(Rationals(color.default_value), "color"))
              ELSE node_tag
    IN  IF BelowMirrorThreshold(alpha)
        THEN Element("bsdf", "mirror")
        ELSE SubElement(t1, "float", "alpha", convert_values(<<alpha>>, "float"))

\* case "TEX_IMAGE"
TexImageCase(node, node_tag, export_settings) ==
    LET r == export_texture(node, export_settings)
    IN  IF r.exc /= NoneStr THEN Raised(r.exc)
        ELSE IF Truthy(r.path)
             THEN SubElement(node_tag, "string", "filename", r.path)
        ELSE node_tag

\* handle_special_cases(node, node_tag, texture_dir, export_settings): the
\* element the rule returns, None for `case _`, or the exception raised.
handle_special_cases(node, node_tag, export_settings) ==
    CASE node.type = "EMISSION" -> EmissionCase(node, node_tag)
      [] node.type = "BSDF_PRINCIPLED" -> PrincipledCase(node, node_tag)
      [] node.type = "BSDF_DIFFUSE" -> DiffuseCase(node, node_tag)
      [] node.type = "BSDF_GLOSSY" -> GlossyCase(node, node_tag)
      [] node.type = "TEX_IMAGE" -> TexImageCase(node, node_tag, export_settings)
      [] OTHER -> None

(***************************************************************************)
(* node_to_xml                                                             *)
(***************************************************************************)

\* Variant: the `len(input_socket.links) > 0` test is missing.
GenericSocketIgnoringLinks(node_tag, kind, input_socket, config) ==
    LET param_name == ParamName(config.parameter_map, kind, input_socket.name)
        param_type == Get(config.type_map, input_socket.type)
    IN  IF ~Truthy(param_name) THEN node_tag
        ELSE SubElement(node_tag, param_type, param_name,
                 convert_values(Rationals(input_socket.default_value), param_type))

\* The body of the generic `for input_socket in node.inputs` loop for one
\* socket: skip a linked socket, skip an unregistered one, else add the
\* formatted default.
GenericSocket(node_tag, kind, input_socket, config) ==
    LET param_name == ParamName(config.parameter_map, kind, input_socket.name)
        param_type == Get(config.type_map, input_socket.type)
    IN  IF Len(input_socket.links) > 0 THEN node_tag
        ELSE IF ~Truthy(param_name) THEN node_tag
        ELSE SubElement(node_tag, param_type, param_name,
                 convert_values(Rationals(input_socket.default_value), param_type))

\* The generic loop over node.inputs[i..], in declaration order.
RECURSIVE GenericLoop(_, _, _, _)
GenericLoop(node_tag, node, i, config) ==
    IF i > Len(node.inputs) THEN node_tag
    ELSE GenericLoop(GenericSocket(node_tag, node.type, node.inputs[i], config),
                     node, i + 1, config)

\* `if not node_type and not export_img: return None`
Skipped(node, config, export_settings) ==
    LET node_type == Get(config.node_map, node.type)
        export_img == node.type = "TEX_IMAGE" /\ export_settings.export_textures
    IN  ~Truthy(node_type) /\ ~export_img

\* node_to_xml(node, config, texture_dir, export_settings): an element, None,
\* or the exception that leaves the call.
node_to_xml(node, config, export_settings) ==
    IF Skipped(node, config, export_settings) THEN None
    ELSE LET node_tag == Element(Get(config.node_tag_map, node.type),
                                 Get(config.node_map, node.type))
             special_tag == handle_special_cases(node, node_tag, export_settings)
         IN  IF special_tag /= None THEN special_tag
             ELSE GenericLoop(node_tag, node, 1, config)

(***************************************************************************)
(* The Mapping Configuration (load_config): the four tables of the         *)
(* configuration file.  MIX_RGB has a tag and a type, INVERT a tag only,   *)
(* RGBTOBW a type only, GAMMA neither; TEX_IMAGE has a tag, and a type in  *)
(* one of the two configurations drawn.                                    *)
(***************************************************************************)
node_tag_map ==
    [k \in {"BSDF_DIFFUSE", "BSDF_GLOSSY", "BSDF_PRINCIPLED", "EMISSION",
            "MIX_RGB", "INVERT", "TEX_IMAGE"} |->
        CASE k = "EMISSION" -> "emitter"
          [] k = "TEX_IMAGE" -> "texture"
          [] k \in {"MIX_RGB", "INVERT"} -> "blend"
          [] OTHER -> "bsdf"]

node_map(tex_typed) ==
    [k \in {"BSDF_DIFFUSE", "BSDF_GLOSSY", "BSDF_PRINCIPLED", "EMISSION",
            "MIX_RGB", "RGBTOBW"}
           \cup (IF tex_typed THEN {"TEX_IMAGE"} ELSE {}) |->
        CASE k = "BSDF_DIFFUSE" -> "diffuse"
          [] k = "TEX_IMAGE" -> "bitmap"
          [] k = "BSDF_GLOSSY" -> "microfacet"
          [] k = "BSDF_PRINCIPLED" -> "disney"
          [] k = "EMISSION" -> "area"
          [] k = "MIX_RGB" -> "mix"
          [] OTHER -> "luminance"]

parameter_map ==
    [k \in {"BSDF_DIFFUSE", "BSDF_GLOSSY", "BSDF_PRINCIPLED", "EMISSION",
            "MIX_RGB", "RGBTOBW", "GAMMA"} |->
        CASE k = "BSDF_DIFFUSE" -> [n \in {"Color"} |-> "albedo"]
          [] k = "BSDF_GLOSSY" -> [n \in {"Color"} |-> "kd"]
          [] k = "BSDF_PRINCIPLED" -> [n \in {"Base Color"} |-> "baseColor"]
          [] k = "EMISSION" -> [n \in {"Color"} |-> "radiance"]
          [] k = "MIX_RGB" ->
                [n \in {"Fac", "Color1"} |-> IF n = "Fac" THEN "weight" ELSE "a"]
          [] k = "RGBTOBW" -> [n \in {"Color"} |-> "input"]
          [] OTHER -> [n \in {"Color"} |-> "input"]]

type_map ==
    [t \in {"RGBA", "VALUE"} |-> IF t = "RGBA" THEN "color" ELSE "float"]

\* The tuple load_config returns.
Config(tex_typed) ==
    [node_tag_map |-> node_tag_map, node_map |-> node_map(tex_typed),
     parameter_map |-> parameter_map, type_map |-> type_map]

Configs == {Config(b) : b \in BOOLEAN}

(***************************************************************************)
(* The scene.  Blender fixes the input sockets of a node by its kind; the  *)
(* constructors below give each kind its sockets in declaration order.    *)
(* A link target of 0 stands for an unlinked socket.                       *)
(***************************************************************************)

\* The scene holds at most MaxMats materials; the node tree of a material
\* holds at most MaxNodes shading nodes and MaxLinks links between them.
MaxMats == 2

MaxNodes == 3

MaxLinks == 3

Socket(name, type, default_value, target) ==
    [name |-> name, type |-> type, default_value |-> default_value,
     links |-> IF target = 0 THEN <<>> ELSE <<target>>]

White == <<10000, 10000, 10000, 10000>>

Grey == <<5000, 5000, 5000, 10000>>

Red == <<8000, 1000, 1000, 10000>>

MixRgb(a, b) ==
    [type |-> "MIX_RGB", image |-> None,
     inputs |-> <<Socket("Fac", "VALUE", <<5000>>, 0),
                  Socket("Color1", "RGBA", Red, a),
                  Socket("Color2", "RGBA", Grey, b)>>]

Gamma(a) ==
    [type |-> "GAMMA", image |-> None,
     inputs |-> <<Socket("Color", "RGBA", White, a),
                  Socket("Gamma", "VALUE", <<10000>>, 0)>>]

Invert(a) ==
    [type |-> "INVERT", image |-> None,
     inputs |-> <<Socket("Fac", "VALUE", <<10000>>, 0),
                  Socket("Color", "RGBA", Grey, a)>>]

RgbToBw(a) ==
    [type |-> "RGBTOBW", image |-> None,
     inputs |-> <<Socket("Color", "RGBA", Grey, a)>>]

Diffuse(a) ==
    [type |-> "BSDF_DIFFUSE", image |-> None,
     inputs |-> <<Socket("Color", "RGBA", Red, a),
                  Socket("Roughness", "VALUE", <<0>>, 0)>>]

Glossy(a, roughness) ==
    [type |-> "BSDF_GLOSSY", image |-> None,
     inputs |-> <<Socket("Color", "RGBA", Red, a),
                  Socket("Roughness", "VALUE", <<roughness>>, 0)>>]

Emission(a, b, color, strength) ==
    [type |-> "EMISSION", image |-> None,
     inputs |-> <<Socket("Color", "RGBA", color, a),
                  Socket("Strength", "VALUE", <<strength>>, b)>>]

\* base, specular tint, sheen tint: v[1], v[2], v[3].
Principled(a, b, v) ==
    [type |-> "BSDF_PRINCIPLED", image |-> None,
     inputs |-> <<Socket("Base Color", "RGBA", v[1], a),
                  Socket("Metallic", "VALUE", <<0>>, 0),
                  Socket("Roughness", "VALUE", <<5000>>, 0),
                  Socket("Subsurface Weight", "VALUE", <<0>>, 0),
                  Socket("Specular IOR Level", "VALUE", <<5000>>, 0),
                  Socket("Specular Tint", "RGBA", v[2], b),
                  Socket("Coat Weight", "VALUE", <<0>>, 0),
                  Socket("Coat Roughness", "VALUE", <<3000>>, 0),
                  Socket("Sheen Weight", "VALUE", <<0>>, 0),
                  Socket("Sheen Tint", "RGBA", v[3], 0)>>]

TexImage(image) ==
    [type |-> "TEX_IMAGE", image |-> image,
     inputs |-> <<Socket("Vector", "VECTOR", <<0, 0, 0>>, 0)>>]

Image(has_data, save) ==
    [name |-> [stem |-> "wood", ext |-> ".png"], has_data |-> has_data,
     save |-> save]

Images ==
    {None, Image(FALSE, "ok"), Image(TRUE, "ok"), Image(TRUE, "RuntimeError"),
     Image(TRUE, "OSError")}

\* Roughness 0.001, 0.0031, 0.0032 and 0.5: alpha 1e-6, 9.61e-6, 1.024e-5, 0.25.
Roughnesses == {10, 31, 32, 5000}

\* Colour and strength of an emission node: white at 1.0, red at 2.5.
EmissionValues == {<<White, 10000>>, <<Red, 25000>>}

\* Base colour, specular tint and sheen tint of a principled node.
PrincipledValues ==
    {<<Grey, Grey, White>>,
     <<White, White, Grey>>,
     <<Red, <<9000, 5500, 0, 10000>>, <<2000, 10000, 9000, 10000>>>>,
     <<<<10000, 5000, 0, 10000>>, <<5000, 10000, 5000, 10000>>, Red>>}

Max(x, y) == IF x > y THEN x ELSE y

NonZero(x) == IF x = 0 THEN 0 ELSE 1

\* The link targets a node read when k nodes are known may have on one
\* socket: none, a known node, or the next unknown one; within the link
\* and node budgets left.
Targets1(k, links_left, nodes_left) ==
    {a \in 0..(k + 1) : NonZero(a) <= links_left /\ a <= k + nodes_left}

\* The same for two sockets; unknown nodes are numbered in socket order.
Targets2(k, links_left, nodes_left) ==
    {t \in (0..(k + 1)) \X (0..(k + 2)) :
        /\ t[2] <= Max(k, t[1]) + 1
        /\ NonZero(t[1]) + NonZero(t[2]) <= links_left
        /\ Max(t[1], t[2]) <= k + nodes_left}

\* Colour-processing nodes with their links: what the scenes drawn for
\* their graph shape are built of.  INVERT and RGBTOBW are drawn unlinked.
ColorNodes(k, links_left, nodes_left) ==
    {MixRgb(t[1], t[2]) : t \in Targets2(k, links_left, nodes_left)}
    \cup {Gamma(a) : a \in Targets1(k, links_left, nodes_left)}
    \cup {Invert(0), RgbToBw(0)}

\* Shader nodes with their values: what only the Surface socket is fed by.
ShaderNodes(k, links_left, nodes_left) ==
    {Diffuse(a) : a \in Targets1(k, links_left, nodes_left)}
    \cup {Glossy(a, r) : a \in Targets1(k, links_left, nodes_left),
                         r \in Roughnesses}
    \cup {Emission(t[1], t[2], v[1], v[2]) :
            t \in Targets2(k, links_left, nodes_left), v \in EmissionValues}
    \cup {Principled(t[1], t[2], v) :
            t \in Targets2(k, links_left, nodes_left), v \in PrincipledValues}

\* Nodes without links: image textures, and a GAMMA node.
LeafNodes == {TexImage(img) : img \in Images} \cup {Gamma(0)}

\* The number of links on a node's sockets.
RECURSIVE LinkCount(_, _)
LinkCount(node, i) ==
    IF i > Len(node.inputs) THEN 0
    ELSE Len(node.inputs[i].links) + LinkCount(node, i + 1)

\* The largest node id a node's links name (0 when it has none).
RECURSIVE MaxTarget(_, _)
MaxTarget(node, i) ==
    IF i > Len(node.inputs) THEN 0
    ELSE LET l == node.inputs[i].links
         IN  Max(IF Len(l) = 0 THEN 0 ELSE l[1], MaxTarget(node, i + 1))

(***************************************************************************)
(* State                                                                   *)
(***************************************************************************)
VARIABLES
    family,           \* the family of scenes this run is drawn from
    config,           \* the tuple load_config returned
    export_settings,  \* [export_textures, texture_format]
    objects,          \* bpy.data.objects
    pc,               \* "materials", "traverse", "done" or "raised"
    exc,              \* the exception that left export_materials, or NoneStr
    mi,               \* how many of bpy.data.materials the loop has taken
    mat,              \* the material being compiled, or None
    nodes,            \* its shading nodes, by id; Unread until first read
    visited,          \* traverse_material_nodes' visited set (node ids)
    stack,            \* the active traverse calls, innermost last
    ret,              \* the value the last finished traverse call returned
    materials,        \* export_materials' result, in insertion order
    converted,        \* per node id, how often node_to_xml was called on it
    last,             \* history: the traverse call that returned last
    used,             \* [links, nodes] read from this material's tree so far
    runs,             \* history: per finished traversal, its tree and result
    tex               \* one export_texture call, step by step (TextureSpec)

vars ==
    <<family, config, export_settings, objects, pc, exc, mi, mat, nodes, visited,
      stack, ret, materials, converted, last, used, runs, tex>>

\* A node of the tree that no traverse call has read yet.
Unread == [unread |-> TRUE]

\* bpy.data.materials[i].name
MatName(i) == "Mat" \o ToString(i)

\* The objects of a scene: per material one object using it, either a
\* rendered mesh or curves hidden from render, and a camera with an empty slot.
ObjectLists ==
    {[i \in 1..(MaxMats + 1) |->
        IF i = MaxMats + 1
        THEN [type |-> "CAMERA", hide_render |-> FALSE,
              material_slots |-> <<NoneStr>>]
        ELSE IF h[i]
        THEN [type |-> "CURVES", hide_render |-> TRUE,
              material_slots |-> <<MatName(i)>>]
        ELSE [type |-> "MESH", hide_render |-> FALSE,
              material_slots |-> <<MatName(i)>>]] :
     h \in [1..MaxMats -> BOOLEAN]}

\* The visible_materials set export_materials builds from bpy.data.objects.
VisibleMaterials(objs) ==
    UNION {{objs[i].material_slots[j] :
                j \in {j \in 1..Len(objs[i].material_slots) :
                          Truthy(objs[i].material_slots[j])}} :
           i \in {i \in 1..Len(objs) :
                     /\ objs[i].type \in {"MESH", "CURVES"}
                     /\ ~objs[i].hide_render}}

\* The materials a scene may hold: use_nodes, the number of OUTPUT_MATERIAL
\* nodes, and the from_node of the first one's Surface link (0: no link).
MaterialOptions(nodes_left) ==
    {[use_nodes |-> FALSE, output_nodes |-> 0, surface |-> 0],
     [use_nodes |-> TRUE, output_nodes |-> 0, surface |-> 0],
     [use_nodes |-> TRUE, output_nodes |-> 1, surface |-> 0]}
    \cup (IF nodes_left > 0
          THEN {[use_nodes |-> TRUE, output_nodes |-> 1, surface |-> 1]}
          ELSE {})

\* A traverse call: its node, its position in the two for loops, its
\* child_tags list, and where it stands ("enter", "loop", "call").  Two
\* history fields: entry, the visited set when the call was made, and got,
\* one record per link followed (see TraverseAfterCall).
Frame(node, entry) ==
    [node |-> node, si |-> 1, li |-> 1, child_tags |-> <<>>, pc |-> "enter",
     entry |-> entry, got |-> <<>>]

Top == stack[Len(stack)]

\* Every material is used by a rendered mesh.
AllVisible == CHOOSE o \in ObjectLists : \A i \in 1..MaxMats : ~o[i].hide_render

\* Only the first material is used by a rendered object.
FirstVisible ==
    CHOOSE o \in ObjectLists : \A i \in 1..MaxMats : o[i].hide_render <=> i > 1

\* No export_texture call is being followed step by step.
TexIdle == [pc |-> "idle"]

(***************************************************************************)
(* The scenes come in three families, so that graph shapes, node values    *)
(* and batches are each explored in full without multiplying one another:  *)
(*   "graphs"   one rendered material; a tree of colour nodes under any    *)
(*              links the budgets allow (chains, diamonds, cycles);        *)
(*   "shaders"  one rendered material; a shader or texture node at the     *)
(*              Surface socket with every value drawn, fed by leaf nodes;  *)
(*              both configurations, texture export on and off;            *)
(*   "batch"    every combination of rendered and hidden materials, each   *)
(*              with no tree or a diffuse shader fed by at most one node.  *)
(***************************************************************************)
Init ==
    /\ family \in {"graphs", "shaders", "batch"}
    /\ config \in IF family = "shaders" THEN Configs ELSE {Config(TRUE)}
    /\ export_settings \in
         [export_textures : IF family = "shaders" THEN BOOLEAN ELSE {TRUE},
          texture_format : {"PNG"}]
    /\ objects \in IF family = "batch" THEN ObjectLists ELSE {FirstVisible}
    /\ pc = "materials"
    /\ exc = NoneStr
    /\ mi = 0
    /\ mat = None
    /\ nodes = <<>>
    /\ visited = {}
    /\ stack = <<>>
    /\ ret = None
    /\ materials = <<>>
    /\ converted = <<>>
    /\ last = None
    /\ used = [links |-> 0, nodes |-> 0]
    /\ runs = <<>>
    /\ tex = TexIdle

(***************************************************************************)
(* export_materials: the loop over bpy.data.materials                      *)
(***************************************************************************)

\* `if mat.name not in visible_materials: continue`
SkipMaterial ==
    /\ pc = "materials"
    /\ mi < MaxMats
    /\ MatName(mi + 1) \notin VisibleMaterials(objects)
    /\ mi' = mi + 1
    /\ UNCHANGED <<runs, tex>>
    /\ UNCHANGED <<family, config, export_settings, objects, pc, exc, mat, nodes,
                   visited, stack, ret, materials, converted, last, used>>

\* traverse_material_nodes returns None before the traversal: use_nodes is
\* off, or the tree has no OUTPUT_MATERIAL node.  export_materials stores
\* nothing and goes on.
MaterialWithoutTree ==
    /\ pc = "materials"
    /\ mi < MaxMats
    /\ MatName(mi + 1) \in VisibleMaterials(objects)
    /\ \E m \in MaterialOptions(MaxNodes) :
         /\ ~m.use_nodes \/ m.output_nodes = 0
         /\ mat' = m
    /\ mi' = mi + 1
    /\ nodes' = <<>>
    /\ visited' = {}
    /\ converted' = <<>>
    /\ ret' = None
    /\ last' = None
    /\ UNCHANGED <<runs, tex>>
    /\ UNCHANGED <<family, config, export_settings, objects, pc, exc, stack,
                   materials, used>>

\* `output_node.inputs["Surface"].links[0]` on an empty links collection:
\* IndexError, which neither traverse_material_nodes nor export_materials
\* catches.
MaterialWithoutSurfaceLink ==
    /\ pc = "materials"
    /\ mi < MaxMats
    /\ MatName(mi + 1) \in VisibleMaterials(objects)
    /\ \E m \in MaterialOptions(MaxNodes) :
         /\ m.use_nodes /\ m.output_nodes > 0 /\ m.surface = 0
         /\ mat' = m
    /\ pc' = "raised"
    /\ exc' = "IndexError"
    /\ nodes' = <<>>
    /\ visited' = {}
    /\ converted' = <<>>
    /\ ret' = None
    /\ last' = None
    /\ UNCHANGED <<runs, tex>>
    /\ UNCHANGED <<family, config, export_settings, objects, mi, stack, materials,
                   used>>

\* Variant: the visited set of the previous call is kept.
KeptVisited(visited_) == visited_

\* `visited = set()`
FreshVisited(visited_) == {}

\* shader_node found: `visited = set()` and the call traverse(shader_node).
StartTraversal ==
    /\ pc = "materials"
    /\ mi < MaxMats
    /\ MatName(mi + 1) \in VisibleMaterials(objects)
    /\ \E m \in MaterialOptions(MaxNodes) :
         /\ m.use_nodes /\ m.output_nodes > 0 /\ m.surface /= 0
         /\ mat' = m
         /\ stack' = <<Frame(m.surface, FreshVisited(visited))>>
    /\ pc' = "traverse"
    /\ nodes' = <<Unread>>
    /\ visited' = FreshVisited(visited)
    /\ converted' = <<0>>
    /\ ret' = None
    /\ used' = [links |-> 0, nodes |-> 1]
    /\ last' = None
    /\ UNCHANGED <<runs, tex>>
    /\ UNCHANGED <<family, config, export_settings, objects, exc, mi, materials>>

\* traverse_material_nodes returned node_tree_xml:
\* `if xml is not None: materials[mat.name] = xml`
MaterialDone ==
    /\ pc = "traverse"
    /\ stack = <<>>
    /\ materials' = IF ret /= None
                    THEN Append(materials, [name |-> MatName(mi + 1), xml |-> ret])
                    ELSE materials
    /\ mi' = mi + 1
    /\ pc' = "materials"
    /\ runs' = Append(runs, [nodes |-> nodes, surface |-> mat.surface,
                            xml |-> ret])
    /\ UNCHANGED tex
    /\ UNCHANGED <<family, config, export_settings, objects, exc, mat, nodes, visited,
                   stack, ret, converted, last, used>>

\* `return materials`
ExportDone ==
    /\ pc = "materials"
    /\ mi = MaxMats
    /\ pc' = "done"
    /\ UNCHANGED <<runs, tex>>
    /\ UNCHANGED <<family, config, export_settings, objects, exc, mi, mat, nodes,
                   visited, stack, ret, materials, converted, last, used>>

(***************************************************************************)
(* traverse_material_nodes.traverse, one action per step of a call         *)
(***************************************************************************)

\* The deepest the call stack gets: every node once, and one more call that
\* finds its node visited.  TraverseCall is guarded by it so that a variant
\* of traverse that recurses without end stays finite.
MaxDepth == MaxNodes + 2

\* What node n may turn out to be when it is first read, by the family of
\* the scene; shader nodes feed the Surface socket only.
NodeOptions(n, k, links_left, nodes_left) ==
    CASE family = "graphs" ->
            ColorNodes(k, links_left, nodes_left)
            \cup (IF n = mat.surface
                  THEN {Diffuse(a) : a \in Targets1(k, links_left, nodes_left)}
                  ELSE {})
      [] family = "shaders" ->
            IF n = mat.surface
            THEN ShaderNodes(k, links_left, nodes_left) \cup LeafNodes
            ELSE LeafNodes
      [] OTHER ->
            IF n = mat.surface
            THEN {Diffuse(a) : a \in Targets1(k, links_left, nodes_left)}
                 \cup {Gamma(0)}
            ELSE {Gamma(0), TexImage(Image(TRUE, "ok"))}

\* seq extended to length n with x.
PadTo(seq, n, x) ==
    [i \in 1..Max(Len(seq), n) |-> IF i <= Len(seq) THEN seq[i] ELSE x]

\* The position (socket, link) of the next link at or after (s, l) in the
\* nested for loops, <<0, 0>> when the loops are over.
RECURSIVE NextLinkPos(_, _, _)
NextLinkPos(node, s, l) ==
    IF s > Len(node.inputs) THEN <<0, 0>>
    ELSE IF l <= Len(node.inputs[s].links) THEN <<s, l>>
    ELSE NextLinkPos(node, s + 1, 1)

\* The end of a traverse call: its frame is popped, its value handed back.
Return(value) ==
    /\ stack' = SubSeq(stack, 1, Len(stack) - 1)
    /\ ret' = value

\* Variant: the visited check is missing.
AlreadyVisitedNever(node, visited_) == FALSE

\* `node in visited`
AlreadyVisited(node, visited_) == node \in visited_

\* Variant: the node is never recorded as visited.
VisitedAddNothing(visited_, node) == visited_

\* `visited.add(node)`
VisitedAdd(visited_, node) == visited_ \cup {node}

\* `if node in visited: return`
TraverseVisited ==
    /\ pc = "traverse"
    /\ stack /= <<>>
    /\ Top.pc = "enter"
    /\ AlreadyVisited(Top.node, visited)
    /\ Return(None)
    /\ last' = [node |-> Top.node, how |-> "visited", entry |-> Top.entry,
                got |-> <<>>, node_tag |-> None, value |-> None]
    /\ UNCHANGED <<runs, tex>>
    /\ UNCHANGED <<family, config, export_settings, objects, pc, exc, mi, mat, nodes,
                   visited, materials, converted, used>>

\* `visited.add(node)`; the node's kind and sockets are read here for the
\* first time.
TraverseEnter ==
    /\ pc = "traverse"
    /\ stack /= <<>>
    /\ Top.pc = "enter"
    /\ ~AlreadyVisited(Top.node, visited)
    /\ visited' = VisitedAdd(visited, Top.node)
    /\ IF nodes[Top.node] = Unread
       THEN \E nd \in NodeOptions(Top.node, Len(nodes), MaxLinks - used.links,
                                  MaxNodes - used.nodes) :
              LET k == Max(Len(nodes), MaxTarget(nd, 1))
              IN  /\ nodes' = [PadTo(nodes, k, Unread) EXCEPT ![Top.node] = nd]
                  /\ converted' = PadTo(converted, k, 0)
                  /\ used' = [links |-> used.links + LinkCount(nd, 1),
                              nodes |-> used.nodes + (k - Len(nodes))]
       ELSE UNCHANGED <<nodes, converted, used>>
    /\ stack' = [stack EXCEPT ![Len(stack)].pc = "loop"]
    /\ UNCHANGED <<runs, tex>>
    /\ UNCHANGED <<family, config, export_settings, objects, pc, exc, mi, mat, ret,
                   materials, last>>

\* `child_tag = traverse(from_node)`: the recursive call for the next link.
TraverseCall ==
    /\ pc = "traverse"
    /\ stack /= <<>>
    /\ Top.pc = "loop"
    /\ Len(stack) < MaxDepth
    /\ LET pos == NextLinkPos(nodes[Top.node], Top.si, Top.li)
       IN  /\ pos /= <<0, 0>>
           /\ stack' =
                Append([stack EXCEPT ![Len(stack)] =
                           [@ EXCEPT !.si = pos[1], !.li = pos[2], !.pc = "call"]],
                       Frame(nodes[Top.node].inputs[pos[1]].links[pos[2]], visited))
    /\ UNCHANGED <<runs, tex>>
    /\ UNCHANGED <<family, config, export_settings, objects, pc, exc, mi, mat, nodes,
                   visited, ret, materials, converted, last, used>>

\* Variant: `child_tags.append(child_tag)` sits inside `if param_name:`.
AttachNamedOnly(child_tags, child_tag, kind, input_socket, parameter_map_) ==
    LET param_name == ParamName(parameter_map_, kind, input_socket.name)
    IN  IF child_tag = None THEN child_tags
        ELSE IF Truthy(param_name)
             THEN Append(child_tags, SetName(child_tag, param_name))
        ELSE child_tags

\* The child_tags list after the call for socket input_socket of a node of
\* kind `kind` returned child_tag.
Attach(child_tags, child_tag, kind, input_socket, parameter_map_) ==
    LET param_name == ParamName(parameter_map_, kind, input_socket.name)
    IN  IF child_tag = None THEN child_tags
        ELSE IF Truthy(param_name)
             THEN Append(child_tags, SetName(child_tag, param_name))
        ELSE Append(child_tags, child_tag)

\* The rest of the loop body once the recursive call has returned.
TraverseAfterCall ==
    /\ pc = "traverse"
    /\ stack /= <<>>
    /\ Top.pc = "call"
    /\ stack' =
         [stack EXCEPT ![Len(stack)] =
             [@ EXCEPT
                 !.child_tags =
                     Attach(@, ret, nodes[Top.node].type,
                            nodes[Top.node].inputs[Top.si], config.parameter_map),
                 !.got = Append(@, [socket |-> Top.si, node |-> last.node,
                                    how |-> last.how, value |-> ret,
                                    before |-> last.entry, after |-> visited]),
                 !.li = @ + 1,
                 !.pc = "loop"]]
    /\ UNCHANGED <<runs, tex>>
    /\ UNCHANGED <<family, config, export_settings, objects, pc, exc, mi, mat, nodes,
                   visited, ret, materials, converted, last, used>>

\* node_tag with the child_tags appended in order.
RECURSIVE AppendAll(_, _, _)
AppendAll(node_tag, child_tags, i) ==
    IF i > Len(child_tags) THEN node_tag
    ELSE AppendAll(AppendChild(node_tag, child_tags[i]), child_tags, i + 1)

\* Variant: when node_to_xml gave None the first child is handed up in the
\* node's place.
AssembleKeepingChildren(node_tag, child_tags) ==
    IF node_tag = None
    THEN IF child_tags = <<>> THEN None ELSE child_tags[1]
    ELSE AppendAll(node_tag, child_tags, 1)

\* What traverse returns once the loops are over: None when node_to_xml
\* gave None, else node_tag with the children appended.
Assemble(node_tag, child_tags) ==
    IF node_tag = None THEN None ELSE AppendAll(node_tag, child_tags, 1)

\* The loops are over: node_to_xml, then the return (or the exception of
\* export_texture, which nothing up to export_materials' caller catches).
TraverseConvert ==
    /\ pc = "traverse"
    /\ stack /= <<>>
    /\ Top.pc = "loop"
    /\ NextLinkPos(nodes[Top.node], Top.si, Top.li) = <<0, 0>>
    /\ converted' = [converted EXCEPT ![Top.node] = @ + 1]
    /\ LET node_tag == node_to_xml(nodes[Top.node], config, export_settings)
       IN  IF IsRaised(node_tag)
           THEN /\ pc' = "raised"
                /\ exc' = node_tag.exc
                /\ stack' = <<>>
                /\ ret' = None
                /\ last' = None
           ELSE /\ Return(Assemble(node_tag, Top.child_tags))
                /\ last' = [node |-> Top.node, how |-> "converted",
                            entry |-> Top.entry, got |-> Top.got,
                            node_tag |-> node_tag,
                            value |-> Assemble(node_tag, Top.child_tags)]
                /\ UNCHANGED <<pc, exc>>
    /\ UNCHANGED <<runs, tex>>
    /\ UNCHANGED <<family, config, export_settings, objects, mi, mat, nodes, visited,
                   materials, used>>

Next ==
    \/ SkipMaterial
    \/ MaterialWithoutTree
    \/ MaterialWithoutSurfaceLink
    \/ StartTraversal
    \/ MaterialDone
    \/ ExportDone
    \/ TraverseVisited
    \/ TraverseEnter
    \/ TraverseCall
    \/ TraverseAfterCall
    \/ TraverseConvert

Spec == Init /\ [][Next]_vars

\* The step of TraverseConvert as seen on `converted`: the same guard, and
\* node_to_xml counted once more for the node on top of the stack.
Converts ==
    /\ pc = "traverse"
    /\ stack /= <<>>
    /\ Top.pc = "loop"
    /\ NextLinkPos(nodes[Top.node], Top.si, Top.li) = <<0, 0>>
    /\ converted' = [converted EXCEPT ![Top.node] = @ + 1]

\* The interpreter runs a started traverse_material_nodes call to its end:
\* a statement of traverse that can run does run, and so does the return to
\* export_materials.
FairSpec ==
    /\ Spec
    /\ WF_vars(TraverseVisited \/ TraverseEnter \/ TraverseCall \/ TraverseAfterCall
               \/ MaterialDone)
    /\ WF_converted(Converts)

(***************************************************************************)
(* traverse as a function: the value traverse(n) returns on node tree G    *)
(* when called with the visited set vis, and the visited set it leaves.    *)
(* The same code as the actions above, run to its end in one evaluation;   *)
(* used to say what a call would return on another tree.                   *)
(***************************************************************************)
RECURSIVE TraverseFn(_, _, _)
RECURSIVE LoopFn(_, _, _, _, _, _)

\* The two for loops from position (s, l) on: [child_tags, visited, exc].
LoopFn(G, n, s, l, vis, child_tags) ==
    LET pos == NextLinkPos(G[n], s, l)
    IN  IF pos = <<0, 0>>
        THEN [child_tags |-> child_tags, visited |-> vis, exc |-> None]
        ELSE LET r == TraverseFn(G, G[n].inputs[pos[1]].links[pos[2]], vis)
             IN  IF IsRaised(r.value)
                 THEN [child_tags |-> child_tags, visited |-> r.visited,
                       exc |-> r.value]
                 ELSE LoopFn(G, n, pos[1], pos[2] + 1, r.visited,
                             Attach(child_tags, r.value, G[n].type,
                                    G[n].inputs[pos[1]], config.parameter_map))

TraverseFn(G, n, vis) ==
    IF AlreadyVisited(n, vis) THEN [value |-> None, visited |-> vis]
    ELSE LET loop == LoopFn(G, n, 1, 1, VisitedAdd(vis, n), <<>>)
             node_tag == node_to_xml(G[n], config, export_settings)
         IN  IF loop.exc /= None
             THEN [value |-> loop.exc, visited |-> loop.visited]
             ELSE IF IsRaised(node_tag)
             THEN [value |-> node_tag, visited |-> loop.visited]
             ELSE [value |-> Assemble(node_tag, loop.child_tags),
                   visited |-> loop.visited]

\* A traverse call has just returned: `last` describes it, `ret` is its
\* value, and its caller (if any) has not yet looked at the value.
JustReturned ==
    /\ pc = "traverse"
    /\ last /= None
    /\ stack = <<>> \/ Top.pc = "call"

\* The step-wise traversal and the function agree on every finished call.
StepsAgreeWithFn ==
    (JustReturned /\ last.how = "converted")
        => /\ last.value = TraverseFn(nodes, last.node, last.entry).value
           /\ visited = TraverseFn(nodes, last.node, last.entry).visited

(***************************************************************************)
(* export_texture, statement by statement, on one image.  tex holds the    *)
(* call: where it stands (pc), the image as it is now (img) and as it was  *)
(* when the call began (img0), the locals original_pixels and              *)
(* original_format, what the try statement has pending when the finally    *)
(* block runs, the result (path, exc) and how often the image was written. *)
(* An image is [name, has_data, size, pixels, file_format, save].          *)
(***************************************************************************)

\* The variables of the material export, which export_texture leaves alone.
scene ==
    <<family, config, export_settings, objects, pc, exc, mi, mat, nodes, visited,
      stack, ret, materials, converted, last, used, runs>>

\* An image of the given size whose pixel values are all different.
Bitmap(size, file_format, has_data, save) ==
    [name |-> [stem |-> "wood", ext |-> ".png"], has_data |-> has_data,
     size |-> size, pixels |-> [k \in 1..(size[1] * size[2] * 4) |-> k],
     file_format |-> file_format, save |-> save]

Bitmaps ==
    {Bitmap(size, f, d, sv) :
        size \in {<<1, 1>>, <<1, 2>>, <<2, 2>>}, f \in {"PNG", "TARGA"},
        d \in BOOLEAN, sv \in {"ok", "RuntimeError", "OSError"}}

\* flipped_pixels: row y of the result is row height - 1 - y of the source.
Flip(original_pixels, width, height) ==
    [k \in 1..(width * height * 4) |->
        LET y == (k - 1) \div (width * 4)
            x == ((k - 1) % (width * 4)) \div 4
            c == (k - 1) % 4
            src_y == height - 1 - y
            src_index == (src_y * width + x) * 4
        IN  original_pixels[src_index + c + 1]]

TexInit ==
    /\ family = "texture"
    /\ config = Config(TRUE)
    /\ export_settings \in
         [export_textures : BOOLEAN, texture_format : {"PNG", "JPEG", "OPEN_EXR"}]
    /\ objects = FirstVisible
    /\ pc = "texture"
    /\ exc = NoneStr
    /\ mi = 0
    /\ mat = None
    /\ nodes = <<>>
    /\ visited = {}
    /\ stack = <<>>
    /\ ret = None
    /\ materials = <<>>
    /\ converted = <<>>
    /\ last = None
    /\ used = [links |-> 0, nodes |-> 0]
    /\ runs = <<>>
    /\ \E img \in Bitmaps \cup {None} :
         tex = [pc |-> "start", img |-> img, img0 |-> img,
                original_pixels |-> <<>>, original_format |-> NoneStr,
                pending |-> NoneStr, path |-> NoneStr, exc |-> NoneStr,
                writes |-> 0]

\* The three early returns: export disabled, no image, no image data.
EarlyReturn(img) ==
    IF ~export_settings.export_textures THEN TRUE
    ELSE IF img = None THEN TRUE
    ELSE ~img.has_data

TexReturnEarly ==
    /\ tex.pc = "start"
    /\ EarlyReturn(tex.img)
    /\ tex' = [tex EXCEPT !.pc = "returned"]
    /\ UNCHANGED scene

\* `original_pixels = list(img.pixels)` ... `img.pixels[:] = flipped_pixels`
TexFlip ==
    /\ tex.pc = "start"
    /\ ~EarlyReturn(tex.img)
    /\ tex' = [tex EXCEPT
                 !.original_pixels = tex.img.pixels,
                 !.img.pixels = Flip(tex.img.pixels, tex.img.size[1],
                                     tex.img.size[2]),
                 !.writes = @ + 1,
                 !.pc = "flipped"]
    /\ UNCHANGED scene

\* `original_format = img.file_format`
\* `img.file_format = export_settings.texture_format`
TexSetFormat ==
    /\ tex.pc = "flipped"
    /\ tex' = [tex EXCEPT
                 !.original_format = tex.img.file_format,
                 !.img.file_format = export_settings.texture_format,
                 !.writes = @ + 1,
                 !.pc = "save"]
    /\ UNCHANGED scene

\* `img.save(filepath=out_path)`: it returns, raises RuntimeError (caught
\* below), or raises something else (pending while finally runs).
TexSave ==
    /\ tex.pc = "save"
    /\ tex' = [tex EXCEPT
                 !.pc = IF tex.img.save = "RuntimeError" THEN "except"
                        ELSE "finally",
                 !.pending = IF tex.img.save \in {"ok", "RuntimeError"}
                             THEN NoneStr ELSE tex.img.save]
    /\ UNCHANGED scene

\* `except RuntimeError`: the format is put back and `return None` is
\* pending while finally runs.
TexExcept ==
    /\ tex.pc = "except"
    /\ tex' = [tex EXCEPT
                 !.img.file_format = tex.original_format,
                 !.writes = @ + 1,
                 !.pending = "return None",
                 !.pc = "finally"]
    /\ UNCHANGED scene

\* Variant: finally puts back the format only.
RestoreFormatOnly(img, original_format, original_pixels) ==
    [img EXCEPT !.file_format = original_format]

\* `img.file_format = original_format; img.pixels[:] = original_pixels`
Restore(img, original_format, original_pixels) ==
    [img EXCEPT !.file_format = original_format, !.pixels = original_pixels]

\* The finally block, then what was pending: the exception, `return None`,
\* or the statements after the try with `return f"textures/..."`.
TexFinally ==
    /\ tex.pc = "finally"
    /\ tex' = [tex EXCEPT
                 !.img = Restore(tex.img, tex.original_format,
                                 tex.original_pixels),
                 !.writes = @ + 2,
                 !.pc = IF tex.pending \in {NoneStr, "return None"}
                        THEN "returned" ELSE "raised",
                 !.exc = IF tex.pending \in {NoneStr, "return None"}
                         THEN NoneStr ELSE tex.pending,
                 !.path = IF tex.pending = NoneStr
                          THEN "textures/" \o SplitExt0(tex.img.name) \o "."
                                   \o LowerCase[export_settings.texture_format]
                          ELSE NoneStr]
    /\ UNCHANGED scene

TexNext ==
    \/ TexReturnEarly
    \/ TexFlip
    \/ TexSetFormat
    \/ TexSave
    \/ TexExcept
    \/ TexFinally

TextureSpec == TexInit /\ [][TexNext]_vars

\* Control has left export_texture.
TexLeft == tex.pc \in {"returned", "raised"}

\* The statement-by-statement call ends as the operator export_texture says.
TexAgreesWithOperator ==
    (pc = "texture" /\ TexLeft) =>
        [path |-> tex.path, exc |-> tex.exc]
            = export_texture([image |-> tex.img0], export_settings)

(***************************************************************************)
(* Properties                                                              *)
(***************************************************************************)

\* The nodes that node n's links name.
Succ(G, n) ==
    IF G[n] = Unread THEN {}
    ELSE UNION {{G[n].inputs[i].links[j] : j \in 1..Len(G[n].inputs[i].links)} :
                i \in 1..Len(G[n].inputs)}

\* The nodes reachable from the set S along links, S included.
RECURSIVE Closure(_, _)
Closure(G, S) ==
    LET T == S \cup UNION {Succ(G, n) : n \in S}
    IN  IF T = S THEN S ELSE Closure(G, T)

\* Node n lies on a cycle of producer links.
OnCycle(G, n) == n \in Closure(G, Succ(G, n))

\* The number of elements of a tree (0 for None).
RECURSIVE TreeSize(_)
RECURSIVE ForestSize(_, _)
ForestSize(children, i) ==
    IF i > Len(children) THEN 0
    ELSE TreeSize(children[i]) + ForestSize(children, i + 1)

TreeSize(e) == IF e = None THEN 0 ELSE 1 + ForestSize(e.children, 1)

\* C1: a rendered material whose material-output node has no link on its
\* Surface input is not fatal to the batch: no exception leaves its
\* compilation (so export_materials goes on to the other materials).
C1_MissingSurfaceLinkIsNotFatal ==
    (mat /= None /\ mat.use_nodes /\ mat.output_nodes > 0 /\ mat.surface = 0)
        => pc /= "raised"

\* C2: on every finite node graph, cycles included, a traversal that has
\* started comes to its end: control leaves traverse_material_nodes.
C2_TraversalTerminates == [](pc = "traverse" => <>(pc /= "traverse"))

\* C2 witness: the traversal of a tree with a cycle through two or more
\* nodes has returned.
C2_CycleTraversed ==
    /\ pc = "materials"
    /\ mi = 1
    /\ ret /= None
    /\ \E n \in 1..Len(nodes) : OnCycle(nodes, n) /\ n \notin Succ(nodes, n)

\* C3: within one run of traverse_material_nodes node_to_xml is called at
\* most once per node, whatever the shape of the graph; so the tree
\* returned has no more elements than nodes were visited.
C3_ConvertedAtMostOnce ==
    /\ \A n \in 1..Len(converted) : converted[n] <= 1
    /\ (JustReturned /\ stack = <<>>) => TreeSize(ret) <= Cardinality(visited)

\* C3 witness: a finished traversal of three nodes in which some node is
\* named by two links (a diamond or a cycle), each node converted once.
C3_SharedNodeConvertedOnce ==
    /\ pc = "materials"
    /\ mi = 1
    /\ Len(nodes) = 3
    /\ used.links >= 3
    /\ \A n \in 1..3 : converted[n] = 1

\* A traverse call that reached node_to_xml has just returned.
Finished == JustReturned /\ last.how = "converted"

\* Tree G with the links of node p removed: p compiles no children.
Childless(G, p) ==
    LET inputs == G[p].inputs
    IN  [G EXCEPT ![p].inputs =
            [i \in 1..Len(inputs) |-> [inputs[i] EXCEPT !.links = <<>>]]]

\* The i-th link the finished call followed led to a producer that ran
\* node_to_xml and got None.
DroppedAt(i) ==
    /\ last.got[i].how = "converted"
    /\ node_to_xml(nodes[last.got[i].node], config, export_settings) = None

\* The nodes first visited inside the call recorded by g, below its node.
FirstVisitedIn(g) == g.after \ (g.before \cup {g.node})

\* C4 as stated: a producer that converts to nothing returns None, and the
\* consumer's value (attributes and children of the other sockets) is what
\* it would be if that producer compiled no children at all.
C4_DroppedProducerLeavesOtherSocketsAlone ==
    Finished =>
        \A i \in 1..Len(last.got) :
            DroppedAt(i) =>
                /\ last.got[i].value = None
                /\ last.value =
                     TraverseFn(Childless(nodes, last.got[i].node), last.node,
                                last.entry).value

\* C4 amended: a producer that converts to nothing returns None, and the
\* consumer's value is what it would be if that producer compiled no
\* children and the nodes first visited below it were already visited.
C4_DroppedProducerActsAsVisitedLeaf ==
    Finished =>
        \A i \in 1..Len(last.got) :
            DroppedAt(i) =>
                /\ last.got[i].value = None
                /\ last.value =
                     TraverseFn(Childless(nodes, last.got[i].node), last.node,
                                last.entry \cup FirstVisitedIn(last.got[i])).value

\* C4 witness: an emitted consumer with a dropped producer on one socket
\* and, on another socket, a link to a node first visited below that
\* producer.
C4_NodeLostBelowDroppedProducer ==
    /\ Finished
    /\ last.value /= None
    /\ \E i, j \in 1..Len(last.got) :
         /\ DroppedAt(i)
         /\ last.got[i].value = None
         /\ last.got[j].how = "visited"
         /\ last.got[j].node \in FirstVisitedIn(last.got[i])

\* C5 as stated: node_to_xml gives None exactly when node_tag_map has no
\* entry for the kind and the node is not a texture with export enabled,
\* and a kind with an entry is emitted with that tag.
C5_EmptyIffNoTagEntry ==
    Finished =>
        LET kind == nodes[last.node].type
            tag == Get(config.node_tag_map, kind)
            export_img == kind = "TEX_IMAGE" /\ export_settings.export_textures
        IN  /\ (last.node_tag = None) <=> (~Truthy(tag) /\ ~export_img)
            /\ (Truthy(tag) /\ last.node_tag /= None) => last.node_tag.tag = tag

\* The kinds handle_special_cases has a case for.
HasRule(kind) ==
    kind \in {"EMISSION", "BSDF_PRINCIPLED", "BSDF_DIFFUSE", "BSDF_GLOSSY",
              "TEX_IMAGE"}

\* The sockets of a node that are unlinked and have a registered name.
UnlinkedRegistered(node) ==
    {i \in 1..Len(node.inputs) :
        /\ Len(node.inputs[i].links) = 0
        /\ Truthy(ParamName(config.parameter_map, node.type, node.inputs[i].name))}

\* C6: on the generic path the element has one attribute per socket that
\* is unlinked and registered, and none for any other socket; a linked
\* socket gives none, registered or not.
C6_GenericAttributesOnlyForUnlinkedRegistered ==
    (Finished /\ last.node_tag /= None /\ ~HasRule(nodes[last.node].type)) =>
        LET node == nodes[last.node]
            attrs == last.node_tag.attrs
        IN  /\ Len(attrs) = Cardinality(UnlinkedRegistered(node))
            /\ \A i \in 1..Len(node.inputs) :
                 (\E a \in 1..Len(attrs) :
                     attrs[a].name = ParamName(config.parameter_map, node.type,
                                               node.inputs[i].name))
                 <=> i \in UnlinkedRegistered(node)

\* C6 witness: a MIX_RGB node emitted with its registered Color1 socket and
\* its unregistered Color2 socket both linked: the one attribute is Fac's.
C6_LinkedSocketsGiveNoAttribute ==
    /\ Finished
    /\ last.node_tag /= None
    /\ nodes[last.node].type = "MIX_RGB"
    /\ Len(nodes[last.node].inputs[2].links) > 0
    /\ Len(nodes[last.node].inputs[3].links) > 0
    /\ Len(last.node_tag.attrs) = 1
    /\ last.node_tag.attrs[1].name = "weight"

\* The children a node of kind `kind` must end up with, given the records
\* got[i..] of the links it followed: each non-None value, carrying the
\* registered name of its socket or no name.
RECURSIVE ExpectedChildren(_, _, _)
ExpectedChildren(node, got, i) ==
    IF i > Len(got) THEN <<>>
    ELSE LET g == got[i]
             param_name == ParamName(config.parameter_map, node.type,
                                     node.inputs[g.socket].name)
         IN  (IF g.value = None THEN <<>>
              ELSE IF Truthy(param_name)
                   THEN <<[g.value EXCEPT !.name = param_name]>>
              ELSE <<[g.value EXCEPT !.name = NoneStr]>>)
             \o ExpectedChildren(node, got, i + 1)

\* C7: the children of an emitted node are the non-empty results of its
\* linked producers, each named after its socket when a name is registered
\* and left unnamed otherwise; an empty result is not attached.
C7_NonEmptyProducersAttached ==
    (Finished /\ last.node_tag /= None) =>
        /\ last.value.children =
             ExpectedChildren(nodes[last.node], last.got, 1)
        /\ \A i \in 1..Len(last.got) :
             last.got[i].value /= None => last.got[i].value.name = NoneStr

\* C7 witness: a node emitted with two children, the first named after its
\* registered socket, the second from an unregistered socket and unnamed.
C7_NamedAndUnnamedChild ==
    /\ Finished
    /\ last.value /= None
    /\ Len(last.value.children) = 2
    /\ last.value.children[1].name = "a"
    /\ last.value.children[2].name = NoneStr

\* C8: a glossy node with roughness^2 < 1e-5 is emitted as bsdf/mirror
\* without attributes; otherwise it keeps its mapped tag and type and has
\* one alpha attribute, the formatted square ("0.25" for roughness 0.5).
C8_GlossyMirrorBelowThreshold ==
    (Finished /\ nodes[last.node].type = "BSDF_GLOSSY") =>
        LET r == InputsGet(nodes[last.node], "Roughness").default_value[1]
            e == last.node_tag
            Alphas == {a \in 1..Len(e.attrs) : e.attrs[a].name = "alpha"}
        IN  IF r * r < (Scale * Scale) \div 100000
            THEN e.tag = "bsdf" /\ e.type = "mirror" /\ e.attrs = <<>>
            ELSE /\ e.tag = Get(config.node_tag_map, "BSDF_GLOSSY")
                 /\ e.type = Get(config.node_map, "BSDF_GLOSSY")
                 /\ Cardinality(Alphas) = 1
                 /\ \A a \in Alphas :
                      /\ e.attrs[a].tag = "float"
                      /\ e.attrs[a].value =
                           convert_values(<<Q(r * r, Scale * Scale)>>, "float")
                      /\ r = 5000 => e.attrs[a].value = "0.25"

\* C8 witness: a glossy node of roughness 0.001 emitted as the mirror.
C8_MirrorEmitted ==
    /\ Finished
    /\ nodes[last.node].type = "BSDF_GLOSSY"
    /\ InputsGet(nodes[last.node], "Roughness").default_value = <<10>>
    /\ last.value = Element("bsdf", "mirror")

\* t_i of the claim, for one channel of base colour b and tint t.
ClaimedChannel(b, t) ==
    IF Abs(b - Scale) > 1
    THEN LET q == Q(t - Scale, b - Scale)
         IN  IF LessQ(q, Q(0, 1)) THEN Q(0, 1)
             ELSE IF LessQ(Q(1, 1), q) THEN Q(1, 1)
             ELSE q
    ELSE IF t >= Scale - 1 THEN Q(0, 1) ELSE Q(1, 1)

\* The unweighted average of the three channels.
ClaimedTint(B, T) ==
    DivQ(AddQ(AddQ(ClaimedChannel(B[1], T[1]), ClaimedChannel(B[2], T[2])),
              ClaimedChannel(B[3], T[3])),
         Q(3, 1))

\* C9: for each unlinked tint socket of a principled node the element has
\* one attribute holding the formatted channel average of the remap; the
\* average lies in [0, 1], and grey base with grey tint gives "1.0".
C9_TintStrengthIsClampedAverage ==
    (Finished /\ nodes[last.node].type = "BSDF_PRINCIPLED") =>
        \A p \in {<<"Specular Tint", "specularTint">>,
                  <<"Sheen Tint", "sheenTint">>} :
            LET node == nodes[last.node]
                sock == InputsGet(node, p[1])
                B == InputsGet(node, "Base Color").default_value
                attrs == last.node_tag.attrs
                A == {a \in 1..Len(attrs) : attrs[a].name = p[2]}
                v == ClaimedTint(B, sock.default_value)
            IN  Len(sock.links) = 0 =>
                    /\ Cardinality(A) = 1
                    /\ \A a \in A :
                         /\ attrs[a].value = convert_values(<<v>>, "float")
                         /\ (First3(B) = First3(Grey)
                             /\ First3(sock.default_value) = First3(Grey))
                                => attrs[a].value = "1.0"
                    /\ ~LessQ(v, Q(0, 1))
                    /\ ~LessQ(Q(1, 1), v)

\* C9 witness: a principled node with grey base colour and grey specular
\* tint, unlinked, emitted with specularTint "1.0".
C9_GreyOnGreyIsOne ==
    /\ Finished
    /\ nodes[last.node].type = "BSDF_PRINCIPLED"
    /\ InputsGet(nodes[last.node], "Base Color").default_value = Grey
    /\ InputsGet(nodes[last.node], "Specular Tint").default_value = Grey
    /\ Len(InputsGet(nodes[last.node], "Specular Tint").links) = 0
    /\ \E a \in 1..Len(last.node_tag.attrs) :
         /\ last.node_tag.attrs[a].name = "specularTint"
         /\ last.node_tag.attrs[a].value = "1.0"

\* The node with the default value of its socket `name` replaced.
WithDefault(node, name, value) ==
    [node EXCEPT !.inputs =
        [i \in 1..Len(node.inputs) |->
            IF node.inputs[i].name = name
            THEN [node.inputs[i] EXCEPT !.default_value = value]
            ELSE node.inputs[i]]]

\* C10 as stated: the radiance of an emission node is colour times
\* strength when both sockets are unlinked, and the default value of a
\* linked socket has no part in it: another default gives the same element.
C10_LinkedSocketDefaultNotRead ==
    (Finished /\ nodes[last.node].type = "EMISSION") =>
        LET node == nodes[last.node]
            color == InputsGet(node, "Color")
            strength == InputsGet(node, "Strength")
        IN  /\ (Len(color.links) = 0 /\ Len(strength.links) = 0) =>
                 \E a \in 1..Len(last.node_tag.attrs) :
                    /\ last.node_tag.attrs[a].name = "radiance"
                    /\ last.node_tag.attrs[a].value =
                         convert_values(
                             [i \in 1..3 |->
                                 Q(color.default_value[i] * strength.default_value[1],
                                   Scale * Scale)], "color")
            /\ Len(color.links) > 0 =>
                 \A c \in {White, Grey, Red} :
                    node_to_xml(WithDefault(node, "Color", c), config,
                                export_settings) = last.node_tag
            /\ Len(strength.links) > 0 =>
                 \A x \in {10000, 25000} :
                    node_to_xml(WithDefault(node, "Strength", <<x>>), config,
                                export_settings) = last.node_tag

\* The resource export of a texture node succeeds: export is enabled, the
\* node has an image with data, and img.save() returns.
ExportSucceeds(node) ==
    /\ export_settings.export_textures
    /\ node.image /= None
    /\ node.image.has_data
    /\ node.image.save = "ok"

\* The attributes of element e named filename.
Filenames(e) == {a \in 1..Len(e.attrs) : e.attrs[a].name = "filename"}

\* C11 as stated: no exception of the save step aborts the compilation; a
\* texture node always yields its element; the element has exactly one
\* string attribute filename, holding the relative path, when the export
\* succeeds, and no filename attribute when it fails.
C11_TextureFailureOmitsFilenameOnly ==
    /\ pc = "raised" => exc \notin {"RuntimeError", "OSError"}
    /\ (Finished /\ nodes[last.node].type = "TEX_IMAGE") =>
         LET node == nodes[last.node]
             e == last.node_tag
         IN  /\ e /= None
             /\ IF ExportSucceeds(node)
                THEN /\ Cardinality(Filenames(e)) = 1
                     /\ \A a \in Filenames(e) :
                          /\ e.attrs[a].tag = "string"
                          /\ e.attrs[a].value =
                               "textures/" \o node.image.name.stem \o "."
                                   \o LowerCase[export_settings.texture_format]
                ELSE Filenames(e) = {}

\* Node trees G and H may be the same tree: every node both runs have read
\* is the same in both.
Compatible(G, H) ==
    \A n \in 1..(IF Len(G) < Len(H) THEN Len(G) ELSE Len(H)) :
        G[n] = H[n] \/ G[n] = Unread \/ H[n] = Unread

\* C12: two traversals of the same node tree from the same shader node,
\* under the one configuration and the one export settings of the session,
\* return identical trees: the later one is not affected by the earlier.
C12_SameGraphSameTree ==
    \A i, j \in 1..Len(runs) :
        (runs[i].surface = runs[j].surface
         /\ Compatible(runs[i].nodes, runs[j].nodes))
            => runs[i].xml = runs[j].xml

\* C12 witness: the same tree, a shader with a child, has been compiled
\* twice, to the same element.
C12_CompiledTwice ==
    /\ Len(runs) >= 2
    /\ runs[1].nodes = runs[2].nodes
    /\ runs[1].xml /= None
    /\ Len(runs[1].xml.children) = 1
    /\ runs[1].xml = runs[2].xml

\* The number of elements in the values of got[i..] that came from a call
\* that converted its node.
RECURSIVE ConvertedSizes(_, _)
ConvertedSizes(got, i) ==
    IF i > Len(got) THEN 0
    ELSE (IF got[i].how = "converted" THEN TreeSize(got[i].value) ELSE 0)
         + ConvertedSizes(got, i + 1)

\* C13: a link to a producer that an earlier-reached consumer has already
\* compiled finds it visited and gives the later consumer no child; the
\* producer is compiled under the consumer the depth-first order reaches
\* first, and the elements of a returned tree are those of its own node and
\* of the producers it compiled first-hand: no subtree is duplicated.
C13_SharedProducerUnderFirstConsumerOnly ==
    Finished =>
        /\ \A i \in 1..Len(last.got) :
             LET g == last.got[i]
             IN  /\ g.how = "visited" <=> g.node \in g.before
                 /\ g.how = "visited" => g.value = None
        /\ last.value /= None =>
             TreeSize(last.value) = 1 + ConvertedSizes(last.got, 1)
        /\ \A n \in 1..Len(converted) : converted[n] <= 1

\* C13 witness: the shader node's first socket leads to a consumer that has
\* the shared producer as its child; its second socket links the same
\* producer and gets no child.
C13_DiamondEmittedOnce ==
    /\ Finished
    /\ stack = <<>>
    /\ last.value /= None
    /\ Len(last.got) = 2
    /\ last.got[1].how = "converted"
    /\ last.got[2].how = "visited"
    /\ last.got[2].node /= last.got[1].node
    /\ last.got[2].node \in FirstVisitedIn(last.got[1])
    /\ Len(last.value.children) = 1
    /\ Len(last.value.children[1].children) = 1

\* The attribute names of the principled rule, in the order of its blocks.
PrincipledOrder ==
    <<"baseColor", "subsurface", "metallic", "specular", "specularTint",
      "roughness", "sheen", "sheenTint", "clearcoat", "clearcoatGloss">>

\* The socket each attribute of a kind-specific rule is derived from.
RuleSocket ==
    [a \in {"radiance", "albedo", "kd", "alpha"} \cup
           {PrincipledOrder[i] : i \in 1..Len(PrincipledOrder)} |->
        CASE a \in {"radiance", "albedo", "kd"} -> "Color"
          [] a \in {"alpha", "roughness"} -> "Roughness"
          [] a = "baseColor" -> "Base Color"
          [] a = "subsurface" -> "Subsurface Weight"
          [] a = "metallic" -> "Metallic"
          [] a = "specular" -> "Specular IOR Level"
          [] a = "specularTint" -> "Specular Tint"
          [] a = "sheen" -> "Sheen Weight"
          [] a = "sheenTint" -> "Sheen Tint"
          [] a = "clearcoat" -> "Coat Weight"
          [] OTHER -> "Coat Roughness"]

\* The position in node.inputs of the socket an attribute is derived from
\* (0 for the filename of a texture, which no socket gives).
SourceIndex(node, attr) ==
    LET I == IF HasRule(node.type)
             THEN {i \in 1..Len(node.inputs) :
                      /\ attr.name \in DOMAIN RuleSocket
                      /\ node.inputs[i].name = RuleSocket[attr.name]}
             ELSE {i \in 1..Len(node.inputs) :
                      ParamName(config.parameter_map, node.type,
                                node.inputs[i].name) = attr.name}
    IN  IF I = {} THEN 0 ELSE CHOOSE i \in I : \A j \in I : i <= j

\* The attributes of element e follow the declaration order of the sockets
\* of node they are derived from.
InDeclarationOrder(node, e) ==
    \A a, b \in 1..Len(e.attrs) :
        a < b => SourceIndex(node, e.attrs[a]) < SourceIndex(node, e.attrs[b])

\* The attributes of element e follow the order of the principled rule.
InPrincipledOrder(e) ==
    \A a, b \in 1..Len(e.attrs) :
        a < b =>
            \E i, j \in 1..Len(PrincipledOrder) :
                /\ i < j
                /\ PrincipledOrder[i] = e.attrs[a].name
                /\ PrincipledOrder[j] = e.attrs[b].name

\* The children of the finished call's element are its producers' results
\* in the declaration order of the sockets they are linked to.
ChildrenInSocketOrder ==
    /\ last.value /= None =>
         last.value.children = ExpectedChildren(nodes[last.node], last.got, 1)
    /\ \A i, j \in 1..Len(last.got) :
         i < j => last.got[i].socket <= last.got[j].socket

\* C14 as stated: for every kind, generic or with a rule of its own, the
\* attributes are in the declaration order of their source sockets and the
\* children in the declaration order of their input sockets.
C14_AttributesInDeclarationOrder ==
    (Finished /\ last.node_tag /= None) =>
        /\ InDeclarationOrder(nodes[last.node], last.node_tag)
        /\ ChildrenInSocketOrder

\* C14 amended: as stated for every kind but the principled one, whose
\* attributes are in the fixed order of the rule's blocks instead.
C14_AttributesInRuleOrder ==
    (Finished /\ last.node_tag /= None) =>
        /\ IF nodes[last.node].type = "BSDF_PRINCIPLED"
           THEN InPrincipledOrder(last.node_tag)
           ELSE InDeclarationOrder(nodes[last.node], last.node_tag)
        /\ ChildrenInSocketOrder

\* C14 witness: a principled node emitted with all ten attributes, where
\* subsurface precedes metallic although Metallic is declared first.
C14_PrincipledOutOfDeclarationOrder ==
    /\ Finished
    /\ nodes[last.node].type = "BSDF_PRINCIPLED"
    /\ Len(last.node_tag.attrs) = 10
    /\ last.node_tag.attrs[2].name = "subsurface"
    /\ last.node_tag.attrs[3].name = "metallic"
    /\ nodes[last.node].inputs[2].name = "Metallic"
    /\ nodes[last.node].inputs[4].name = "Subsurface Weight"

\* C15: when control leaves export_texture, by return or by any exception,
\* the image's pixels and file_format are what they were when the call
\* began; on the early exits the image has not been written at all.
C15_ImageRestoredOnEveryExit ==
    (pc = "texture" /\ TexLeft) =>
        /\ IF tex.img = None THEN tex.img0 = None
           ELSE /\ tex.img.pixels = tex.img0.pixels
                /\ tex.img.file_format = tex.img0.file_format
        /\ EarlyReturn(tex.img0) => (tex.writes = 0 /\ tex.img = tex.img0)

\* C15 witness: img.save() raised an exception other than RuntimeError on
\* an image that the call had flipped and re-formatted, and the exception
\* left export_texture with the image as it was.
C15_RestoredAfterOtherException ==
    /\ pc = "texture"
    /\ tex.pc = "raised"
    /\ tex.exc = "OSError"
    /\ tex.writes > 0
    /\ Flip(tex.img0.pixels, tex.img0.size[1], tex.img0.size[2])
         /= tex.img0.pixels
    /\ tex.img0.file_format /= export_settings.texture_format
    /\ tex.img = tex.img0

====
